---- MODULE Spec2Model ----
(***************************************************************************)
(* A model of pullpanda (cmd/root.go): the duration parser, the query      *)
(* builder, the per-handle fetch goroutines with their wait group, and the *)
(* summary table.                                                          *)
(*                                                                         *)
(* Strings that the code slices or parses (the --duration token, the cells *)
(* of the table) are sequences of one-character strings.  An int64 is a    *)
(* sequence of eight base-256 limbs, least significant first, in two's     *)
(* complement, so that Go's wrapping arithmetic is computed exactly.       *)
(***************************************************************************)
EXTENDS Integers, Sequences, FiniteSets, TLC

VARIABLES
    configFile,   \* what the --config file holds once parsed as YAML
    config,       \* the Config loaded by loadConfig
    duration,     \* --duration   (package variable, root.go:44)
    argStartDate, \* --start-date as given on the command line
    startDate,    \* --start-date (package variable, root.go:42)
    endDate,      \* --end-date   (package variable, root.go:43)
    token,        \* --token      (package variable, root.go:41)
    enableLog,    \* --enable-log (package variable, root.go:45)
    showPRs,      \* --show-prs   (package variable, root.go:46)
    now,          \* the wall clock read by time.Now(), in seconds
    mainpc,       \* where rootCmd.Run / fetchAllPRs stands
    spawned,      \* number of goroutines fetchAllPRs has started
    wg,           \* the sync.WaitGroup counter
    summaries,    \* the slice fetchAllPRs allocates and returns
    slotWrites,   \* per slot, how many times summaries[i] was assigned
    pc,           \* per goroutine, its position in fetchPRs / makeRequest / log.Fatalf
    si,           \* per goroutine, index of the status being processed
    ki,           \* per goroutine, index of the next scope to request
    query,        \* per goroutine, the query built for the current status
    summary,      \* per goroutine, the local Summary of fetchPRs
    stored,       \* per goroutine, the value it last stored to startDate
    reqs,         \* per goroutine, the requests it has issued, in order, each with
                  \* the response once it has arrived
    exited,       \* whether the process has ended
    exitCode,     \* its exit code once ended
    table,        \* the table printSummaryTable wrote to standard output
    detail,       \* what printDetailedPRs printed
    durArg,       \* argument of a stand-alone parseDuration call
    durRet,       \* its result
    tblArg,       \* arguments of a stand-alone printSummaryTable call
    tblRet        \* its result

vars == <<configFile, config, duration, argStartDate, startDate, endDate, token, enableLog, showPRs, now,
          mainpc, spawned, wg, summaries, slotWrites, pc, si, ki, query,
          summary, stored, reqs, exited, exitCode, table, detail,
          durArg, durRet, tblArg, tblRet>>

-----------------------------------------------------------------------------
(* Bounds of the model. *)

MaxHandles == 2
MaxStatuses == 2
MaxScopes == 2
MaxRequests == 4
MaxItems == 1
MaxTicks == 1
MaxDigits == 4
MaxCount == 1

-----------------------------------------------------------------------------
(* int64 arithmetic as Go computes it (wrapping, two's complement). *)

Base == 2^8
Width == 64 \div 8

\* F applied to the value of v, which is computed once.
Apply(v, F(_)) == CHOOSE r \in {F(x) : x \in {v}} : TRUE

RECURSIVE SeqSum(_)
SeqSum(s) == IF s = <<>> THEN 0 ELSE Head(s) + SeqSum(Tail(s))

\* Limbs of a natural number below 2^31, in w limbs.
Limbs(n, w) == [i \in 1..w |-> IF i <= 4 THEN (n \div Base^(i-1)) % Base ELSE 0]

\* Propagate carries through column sums, dropping the carry out of limb w.
RECURSIVE Carry(_, _, _)
Carry(cols, i, c) ==
    IF i > Len(cols) THEN <<>>
    ELSE <<(cols[i] + c) % Base>> \o Carry(cols, i + 1, (cols[i] + c) \div Base)

\* a * b modulo Base^w, for a and b of w limbs.
MulW(a, b, w) ==
    Apply(<<a, b>>, LAMBDA ab :
        Carry([k \in 1..w |-> SeqSum([i \in 1..k |-> ab[1][i] * ab[2][k + 1 - i]])], 1, 0))

\* int64 multiplication.
Mul64(a, b) == MulW(a, b, Width)

\* int64 negation: ^a + 1.
Neg64(a) ==
    Apply(a, LAMBDA v :
        Carry([i \in 1..Width |-> (Base - 1 - v[i]) + (IF i = 1 THEN 1 ELSE 0)], 1, 0))

IsNeg64(a) == a[Width] >= Base \div 2

IsZero(a) == \A i \in 1..Len(a) : a[i] = 0

\* An int (below 2^31 in magnitude) as an int64.
I64(n) == IF n >= 0 THEN Limbs(n, Width) ELSE Neg64(Limbs(-n, Width))

\* Unsigned division of limbs by a small divisor: <<quotient, remainder>>.
RECURSIVE DivSmall(_, _, _, _)
DivSmall(a, m, i, r) ==
    IF i = 0 THEN <<a, r>>
    ELSE LET cur == r * Base + a[i]
         IN  DivSmall([a EXCEPT ![i] = cur \div m], m, i - 1, cur % m)

\* The value of non-negative limbs as an integer (it must be below 2^31).
RECURSIVE LimbsValue(_, _)
LimbsValue(a, i) ==
    IF i > Len(a) THEN 0
    ELSE IF IsZero(SubSeq(a, i, Len(a))) THEN 0
    ELSE a[i] + Base * LimbsValue(a, i + 1)

-----------------------------------------------------------------------------
(* package time: the constants and the operations the code uses. *)

Second == I64(1000000000)
Minute == Mul64(I64(60), Second)
Hour == Mul64(I64(60), Minute)

\* floor(d / 10^9) for an int64 count of nanoseconds, as an integer.
FloorSeconds(d) ==
    Apply(d, LAMBDA v :
    Apply(DivSmall(IF IsNeg64(v) THEN Neg64(v) ELSE v, 1000, Width, 0), LAMBDA q1 :
    Apply(DivSmall(q1[1], 1000, Width, 0), LAMBDA q2 :
    Apply(DivSmall(q2[1], 1000, Width, 0), LAMBDA q3 :
        LET whole == LimbsValue(q3[1], 1)
            exact == q1[2] = 0 /\ q2[2] = 0 /\ q3[2] = 0
        IN  IF IsNeg64(v) THEN (IF exact THEN -whole ELSE -whole - 1) ELSE whole))))

\* t.Add(d) for a time t in whole seconds: the whole seconds of the result.
TimeAdd(t, d) == t + FloorSeconds(d)

Pad(n, w) ==
    LET s == ToString(n)
    IN  IF w = 4 THEN (IF n < 10 THEN "000" \o s ELSE IF n < 100 THEN "00" \o s
                       ELSE IF n < 1000 THEN "0" \o s ELSE s)
        ELSE (IF n < 10 THEN "0" \o s ELSE s)

\* t.Format("2006-01-02") for a time t in seconds since the epoch (UTC):
\* the civil date of day floor(t / 86400).
Format(t) ==
    LET z == (t \div 86400) + 719468
        era == z \div 146097
        doe == z - era * 146097
        yoe == (doe - doe \div 1460 + doe \div 36524 - doe \div 146096) \div 365
        doy == doe - (365 * yoe + yoe \div 4 - yoe \div 100)
        mp == (5 * doy + 2) \div 153
        d == doy - (153 * mp + 2) \div 5 + 1
        m == IF mp < 10 THEN mp + 3 ELSE mp - 9
        y == yoe + era * 400 + (IF m <= 2 THEN 1 ELSE 0)
    IN  Pad(y, 4) \o "-" \o Pad(m, 2) \o "-" \o Pad(d, 2)

-----------------------------------------------------------------------------
(* package strconv. *)

Digits == <<"0", "1", "2", "3", "4", "5", "6", "7", "8", "9">>

IsDigit(c) == \E i \in 1..10 : Digits[i] = c

DigitVal(c) == (CHOOSE i \in 1..10 : Digits[i] = c) - 1

\* strconv.ParseUint(s, 10, 64) from character i on, acc being the value so
\* far: [err, val].  A character that is no digit ends the scan with a syntax
\* error; a value that leaves 64 bits ends it with a range error and the
\* largest uint64, whatever follows.
RECURSIVE ParseUint(_, _, _)
ParseUint(s, i, acc) ==
    IF i > Len(s) THEN [err |-> "", val |-> acc]
    ELSE IF ~IsDigit(s[i]) THEN [err |-> "invalid syntax", val |-> [k \in 1..Width |-> 0]]
    ELSE LET wide == Carry([k \in 1..(Width + 1) |->
                              IF k <= Width
                              THEN acc[k] * 10 + (IF k = 1 THEN DigitVal(s[i]) ELSE 0)
                              ELSE 0], 1, 0)
         IN  IF wide[Width + 1] # 0
             THEN [err |-> "value out of range", val |-> [k \in 1..Width |-> Base - 1]]
             ELSE ParseUint(s, i + 1, SubSeq(wide, 1, Width))

\* The largest and the smallest int64.
MaxInt64 == [k \in 1..Width |-> IF k = Width THEN Base \div 2 - 1 ELSE Base - 1]

MinInt64 == [k \in 1..Width |-> IF k = Width THEN Base \div 2 ELSE 0]

\* strconv.Atoi on a 64-bit build: [err, val].  A range error comes with the
\* nearest int64, a syntax error with 0.
Atoi(s) ==
    LET signed == Len(s) > 0 /\ s[1] \in {"+", "-"}
        neg == Len(s) > 0 /\ s[1] = "-"
        body == IF signed THEN Tail(s) ELSE s
    IN  IF Len(body) = 0 THEN [err |-> "invalid syntax", val |-> I64(0)]
        ELSE Apply(ParseUint(body, 1, I64(0)), LAMBDA u :
                 IF u.err = "invalid syntax" THEN [err |-> u.err, val |-> I64(0)]
                 ELSE IF ~neg /\ IsNeg64(u.val)
                      THEN [err |-> "value out of range", val |-> MaxInt64]
                 ELSE IF neg /\ IsNeg64(u.val) /\ u.val # MinInt64
                      THEN [err |-> "value out of range", val |-> MinInt64]
                 ELSE [err |-> "", val |-> IF neg THEN Neg64(u.val) ELSE u.val])

\* strconv.Itoa for a non-negative int: the string of its decimal digits.
RECURSIVE Itoa(_)
Itoa(n) == IF n < 10 THEN Digits[n + 1] ELSE Itoa(n \div 10) \o Digits[(n % 10) + 1]

-----------------------------------------------------------------------------
(* parseDuration (root.go:99-134): [err, d], d an int64 of nanoseconds. *)

parseDuration(tok) ==
    IF Len(tok) < 2 THEN [err |-> "invalid duration format", d |-> I64(0)]
    ELSE LET last == tok[Len(tok)]
             isMo == /\ last = "o"
                     /\ Len(tok) > 2
                     /\ SubSeq(tok, Len(tok) - 1, Len(tok)) = <<"m", "o">>
             unit == IF isMo THEN "mo" ELSE last
             value == IF isMo THEN SubSeq(tok, 1, Len(tok) - 2)
                      ELSE SubSeq(tok, 1, Len(tok) - 1)
         IN  Apply(Atoi(value), LAMBDA num :
             IF num.err # "" THEN [err |-> num.err, d |-> I64(0)]
             ELSE CASE unit = "s" -> [err |-> "", d |-> Mul64(num.val, Second)]
                    [] unit = "m" -> [err |-> "", d |-> Mul64(num.val, Minute)]
                    [] unit = "h" -> [err |-> "", d |-> Mul64(num.val, Hour)]
                    [] unit = "d" ->
                         [err |-> "", d |-> Mul64(Mul64(num.val, I64(24)), Hour)]
                    [] unit = "w" ->
                         [err |-> "", d |-> Mul64(Mul64(Mul64(num.val, I64(7)), I64(24)), Hour)]
                    [] unit = "mo" ->
                         [err |-> "", d |-> Mul64(Mul64(Mul64(num.val, I64(30)), I64(24)), Hour)]
                    [] OTHER -> [err |-> "invalid duration unit", d |-> I64(0)])

-----------------------------------------------------------------------------
(* The data model (root.go:20-37) and the inputs the model draws. *)

Range(s) == {s[i] : i \in 1..Len(s)}

Last(s) == s[Len(s)]

SeqsUpTo(S, n) == UNION {[1..k -> S] : k \in 0..n}

StatusPool == {"merged", "open"}

HandleName(i) == "h" \o ToString(i)

OrgName(i) == "org" \o ToString(i)

RepoName(i) == "org" \o ToString(i) \o "/repo"

\* A Go map: a function whose domain is the set of keys present.
EmptyMap == [k \in {} |-> 0]

MapGet(m, k) == IF k \in DOMAIN m THEN m[k] ELSE 0

MapAdd(m, k, n) == [x \in DOMAIN m \cup {k} |-> MapGet(m, x) + (IF x = k THEN n ELSE 0)]

\* The zero Summary, as make([]Summary, n) leaves every slot.
ZeroSummary == [Handle |-> "", Counts |-> EmptyMap, PRs |-> <<>>]

\* Number of requests one (handle, status) pair issues (root.go:191-230).
ScopeCount(orgs, repos) ==
    IF Len(orgs) > 0 THEN Len(orgs) ELSE IF Len(repos) > 0 THEN Len(repos) ELSE 1

\* The configuration files of the model: what yaml.Unmarshal may produce.
ConfigFiles ==
    {c \in [Handles : {[i \in 1..n |-> HandleName(i)] : n \in 0..MaxHandles},
            Orgs : {[i \in 1..n |-> OrgName(i)] : n \in 0..MaxScopes},
            Repos : {[i \in 1..n |-> RepoName(i)] : n \in 0..MaxScopes},
            Statuses : SeqsUpTo(StatusPool, MaxStatuses)] :
        Len(c.Handles) * (IF Len(c.Statuses) = 0 THEN 1 ELSE Len(c.Statuses))
            * ScopeCount(c.Orgs, c.Repos) <= MaxRequests}

\* loadConfig (root.go:80-97) once the file is read and parsed.
loadConfig(file) ==
    IF Len(file.Statuses) = 0 THEN [file EXCEPT !.Statuses = <<"merged">>] ELSE file

\* The --duration tokens of the model: none, valid ones, malformed ones.
DurationFlags == {<<>>, <<"1", "d">>, <<"d">>, <<"x", "d">>, <<"5", "x">>}

ExplicitStart == "2026-10-01"

ExplicitEnd == "2026-10-31"

\* The clock starts at 23:30 UTC on 2026-10-30 and moves in steps of an hour.
StartClock == 20757 * 86400 - 1800

TickSeconds == 60 * 60

\* The goroutines of fetchAllPRs, one per slot of summaries.
Units == DOMAIN pc

Slots == 1..Len(config.Handles)

-----------------------------------------------------------------------------
(* The query builder and the fetcher (root.go:159-263). *)

\* fmt.Sprintf("author:%s is:pr is:%s", handle, status): a query is the sequence
\* of its space-separated clauses, each <<key, value>>.
BaseQuery(handle, status) == <<<<"author:", handle>>, <<"is:", "pr">>, <<"is:", status>>>>

\* The date filters of root.go:175-189, given the values read from startDate
\* (for the test and for the Sprintf) and endDate.
DateClausesAlwaysMerged(status, startTest, startVal, end) ==
    (IF startTest # "" THEN <<<<"merged:>=", startVal>>>> ELSE <<>>)
    \o (IF end # "" THEN <<<<"merged:<=", end>>>> ELSE <<>>)

DateClauses(status, startTest, startVal, end) ==
    IF status = "merged"
    THEN (IF startTest # "" THEN <<<<"merged:>=", startVal>>>> ELSE <<>>)
         \o (IF end # "" THEN <<<<"merged:<=", end>>>> ELSE <<>>)
    ELSE (IF startTest # "" THEN <<<<"created:>=", startVal>>>> ELSE <<>>)
         \o (IF end # "" THEN <<<<"created:<=", end>>>> ELSE <<>>)

\* The scope of the k-th request of a status: org first, then repo, else none.
ScopeClauseOrgAsRepo(orgs, repos, k) ==
    IF Len(orgs) > 0 THEN <<<<"repo:", orgs[k]>>>>
    ELSE IF Len(repos) > 0 THEN <<<<"repo:", repos[k]>>>>
    ELSE <<>>

ScopeClause(orgs, repos, k) ==
    IF Len(orgs) > 0 THEN <<<<"org:", orgs[k]>>>>
    ELSE IF Len(repos) > 0 THEN <<<<"repo:", repos[k]>>>>
    ELSE <<>>

\* url.QueryEscape: an injective encoding of the query.
QueryEscape(q) == [escaped |-> q]

SearchURL(q) == <<"https://api.github.com/search/issues?q=", QueryEscape(q)>>

\* The items the server returns for a query when it returns n of them.
Items(q, n) ==
    [j \in 1..n |-> [URL |-> <<q, j>>, Title |-> "pr" \o ToString(j),
                     Merged |-> q[3][2] = "merged"]]

\* What client.Do can return: a transport error, or a response with its
\* status code, the body still to be read.
Responses ==
    {[err |-> TRUE, code |-> 0],
     [err |-> FALSE, code |-> 403],
     [err |-> FALSE, code |-> 200]}

\* What reading the body of a response can come to: a body that does or does
\* not decode, and the number of items in it.
Bodies ==
    {[decodes |-> FALSE, n |-> 0]}
    \cup {[decodes |-> TRUE, n |-> n] : n \in 0..MaxItems}

\* makeRequest (root.go:236-263), as far as it has come once client.Do has
\* returned resp and, when body is not empty, once Decode has read the body:
\* log.Fatalf, the wait for the body, or the decoded items.
makeRequestNoStatusCheck(url, resp, body) ==
    IF resp.err THEN [fatal |-> TRUE, reading |-> FALSE, items |-> <<>>]
    ELSE IF body = <<>> THEN [fatal |-> FALSE, reading |-> TRUE, items |-> <<>>]
    ELSE IF ~body[1].decodes THEN [fatal |-> TRUE, reading |-> FALSE, items |-> <<>>]
    ELSE [fatal |-> FALSE, reading |-> FALSE, items |-> Items(url[2].escaped, body[1].n)]

makeRequest(url, resp, body) ==
    IF resp.err THEN [fatal |-> TRUE, reading |-> FALSE, items |-> <<>>]
    ELSE IF resp.code # 200 THEN [fatal |-> TRUE, reading |-> FALSE, items |-> <<>>]
    ELSE IF body = <<>> THEN [fatal |-> FALSE, reading |-> TRUE, items |-> <<>>]
    ELSE IF ~body[1].decodes THEN [fatal |-> TRUE, reading |-> FALSE, items |-> <<>>]
    ELSE [fatal |-> FALSE, reading |-> FALSE, items |-> Items(url[2].escaped, body[1].n)]

\* The values a read of startDate by goroutine i may return.  The variable is
\* written by every goroutine without synchronisation (root.go:169), so a read
\* that follows the goroutine's own store returns the value in memory, that
\* store, or the latest store of any other goroutine; never the value the
\* flag had, which the goroutine's own store supersedes.  Every store is a
\* ten-character date, so a torn read is one of these as well.
StartDateReads(i) ==
    IF stored[i] = "" THEN {startDate}
    ELSE {startDate} \cup {stored[j] : j \in {u \in Units : stored[u] # ""}}

-----------------------------------------------------------------------------
(* The presenter (root.go:265-308). *)

RECURSIVE AddCounts(_, _, _, _)
AddCounts(tc, counts, statuses, p) ==
    IF p > Len(statuses) THEN tc
    ELSE AddCounts(MapAdd(tc, statuses[p], MapGet(counts, statuses[p])), counts, statuses, p + 1)

RECURSIVE TotalCounts(_, _, _)
TotalCounts(sums, statuses, r) ==
    IF r = 0 THEN EmptyMap
    ELSE AddCounts(TotalCounts(sums, statuses, r - 1), sums[r].Counts, statuses, 1)

TableRow(s, statuses) ==
    <<s.Handle>>
    \o [p \in 1..Len(statuses) |-> Itoa(MapGet(s.Counts, statuses[p]))]
    \o <<Itoa(SeqSum([p \in 1..Len(statuses) |-> MapGet(s.Counts, statuses[p])]))>>

\* tablewriter's Title, which Render applies to the header and footer cells
\* (auto-formatting is on by default).  A cell is a one-line label that fits
\* its column, in ASCII.  From left to right and in place, every "_" becomes
\* a space, and so does every "." unless what now stands before it and what
\* stands after it are digits or spaces (or the ends of the text); the text
\* is then trimmed of the white space around it (one space is kept of a
\* label that is nothing else) and put in upper case.
LowerCase == "abcdefghijklmnopqrstuvwxyz"

UpperCase == "ABCDEFGHIJKLMNOPQRSTUVWXYZ"

\* strings.TrimSpace: space, tab, line feed, vertical tab, form feed, return.
WhiteSpace == {" ", "\t", "\n", "", "\f", "\r"}

CharAt(str, i) == SubSeq(str, i, i)

IsNumOrSpace(c) == IsDigit(c) \/ c = " "

\* strings.ToUpper, one character.
ToUpperChar(c) ==
    IF \E i \in 1..Len(LowerCase) : CharAt(LowerCase, i) = c
    THEN CharAt(UpperCase, CHOOSE i \in 1..Len(LowerCase) : CharAt(LowerCase, i) = c)
    ELSE c

\* The character Title leaves at place i of name.  The character before a
\* "." is read after its own replacement, the one after it before.
RECURSIVE Spaced(_, _)
Spaced(name, i) ==
    LET c == CharAt(name, i)
    IN  IF c = "_" THEN " "
        ELSE IF c = "." /\ ( (i # 1 /\ ~IsNumOrSpace(Spaced(name, i - 1)))
                            \/ (i # Len(name) /\ ~IsNumOrSpace(CharAt(name, i + 1))) )
             THEN " "
        ELSE c

\* The characters lo..hi of name, spaced and in upper case.
RECURSIVE UpperSpaced(_, _, _)
UpperSpaced(name, lo, hi) ==
    IF lo > hi THEN ""
    ELSE ToUpperChar(Spaced(name, lo)) \o UpperSpaced(name, lo + 1, hi)

Title(name) ==
    LET kept == {i \in 1..Len(name) : Spaced(name, i) \notin WhiteSpace}
    IN  IF kept = {} THEN (IF Len(name) > 0 THEN " " ELSE "")
        ELSE UpperSpaced(name, CHOOSE i \in kept : \A j \in kept : i <= j,
                               CHOOSE i \in kept : \A j \in kept : i >= j)

\* strings.TrimRight: str without its trailing characters that are in cutset.
RECURSIVE TrimRight(_, _)
TrimRight(str, cutset) ==
    IF Len(str) > 0 /\ \E k \in 1..Len(cutset) : CharAt(cutset, k) = CharAt(str, Len(str))
    THEN TrimRight(SubSeq(str, 1, Len(str) - 1), cutset)
    ELSE str

\* SetAutoMergeCellsByColumnIndex([]int{0}) (root.go:296): Render leaves the
\* first cell of a row blank when, trailing spaces apart, it is the first
\* cell of the row above and is not empty.  A cell is a one-line text.
MergeCells(rows) ==
    [r \in 1..Len(rows) |->
        IF /\ r > 1
           /\ TrimRight(rows[r][1], " ") = TrimRight(rows[r - 1][1], " ")
           /\ TrimRight(rows[r][1], " ") # ""
        THEN [rows[r] EXCEPT ![1] = ""]
        ELSE rows[r]]

\* table.Render() (root.go:298) of the header, rows and footer handed over:
\* every header cell and every footer cell goes through Title.
Render(header, rows, footer) ==
    [header |-> [p \in 1..Len(header) |-> Title(header[p])],
     rows |-> MergeCells(rows),
     footer |-> [p \in 1..Len(footer) |-> Title(footer[p])]]

printSummaryTable(sums, statuses) ==
    LET totalCounts == TotalCounts(sums, statuses, Len(sums))
    IN  Render(<<"Handle">> \o statuses \o <<"Total">>,
               [r \in 1..Len(sums) |-> TableRow(sums[r], statuses)],
               <<"Total">>
               \o [p \in 1..Len(statuses) |-> Itoa(MapGet(totalCounts, statuses[p]))]
               \o <<Itoa(SeqSum([p \in 1..Len(statuses) |->
                                   MapGet(totalCounts, statuses[p])]))>>)

RECURSIVE Flatten(_)
Flatten(ss) == IF ss = <<>> THEN <<>> ELSE Head(ss) \o Flatten(Tail(ss))

printDetailedPRs(sums) ==
    <<"Detailed PRs:">>
    \o Flatten([r \in 1..Len(sums) |->
                  [j \in 1..Len(sums[r].PRs) |-> <<sums[r].PRs[j].Title, sums[r].PRs[j].URL>>]])

-----------------------------------------------------------------------------
(* The pieces of fetchPRs and fetchAllPRs that the actions below apply. *)

\* root.go:168-169: the start date a --duration of d nanoseconds gives at time t.
NewStartDateKeepsExplicit(cur, d, t) ==
    IF cur # "" THEN cur ELSE Format(TimeAdd(t, Neg64(d)))

NewStartDate(cur, d, t) == Format(TimeAdd(t, Neg64(d)))

\* root.go:202-203 (and 216-217, 228-229): add one response to the summary.
AccumulatePrepends(s, status, prs) ==
    [s EXCEPT !.Counts = MapAdd(s.Counts, status, Len(prs)), !.PRs = prs \o s.PRs]

Accumulate(s, status, prs) ==
    [s EXCEPT !.Counts = MapAdd(s.Counts, status, Len(prs)), !.PRs = s.PRs \o prs]

\* root.go:144: the slot goroutine i assigns, and the slice after it.
WriteBackOnCompletion(sums, writes, i, s) ==
    [sums EXCEPT ![SeqSum(writes) + 1] = s]

WriteBack(sums, writes, i, s) == [sums EXCEPT ![i] = s]

\* log.Fatalf, once it has written its message: os.Exit(1).
Fatal == exited' = TRUE /\ exitCode' = 1

\* time.Now(): the clock never goes back, and the model stops it after MaxTicks.
ClockReadings ==
    {now + k * TickSeconds : k \in 0..((StartClock + MaxTicks * TickSeconds - now) \div TickSeconds)}

flagVars == <<configFile, duration, argStartDate, endDate, token, enableLog, showPRs>>

standaloneVars == <<durArg, durRet, tblArg, tblRet>>

unitVars == <<pc, si, ki, query, summary, stored, reqs>>

outVars == <<table, detail>>

-----------------------------------------------------------------------------
(* rootCmd.Run and fetchAllPRs: the main goroutine. *)

\* root.go:53, 80-97
LoadConfig ==
    /\ ~exited /\ mainpc = "load"
    /\ config' = loadConfig(configFile)
    /\ mainpc' = "make"
    /\ UNCHANGED <<flagVars, startDate, now, spawned, wg, summaries, slotWrites,
                   unitVars, exited, exitCode, outVars, standaloneVars>>

\* root.go:81-89: the file cannot be read or parsed.
LoadConfigFails ==
    /\ ~exited /\ mainpc = "load"
    /\ Fatal
    /\ UNCHANGED <<config, flagVars, startDate, now, mainpc, spawned, wg, summaries,
                   slotWrites, unitVars, outVars, standaloneVars>>

\* root.go:137-138
MakeSummaries ==
    /\ ~exited /\ mainpc = "make"
    /\ summaries' = [i \in Slots |-> ZeroSummary]
    /\ slotWrites' = [i \in Slots |-> 0]
    /\ pc' = [i \in Slots |-> "idle"]
    /\ si' = [i \in Slots |-> 1]
    /\ ki' = [i \in Slots |-> 1]
    /\ query' = [i \in Slots |-> <<>>]
    /\ summary' = [i \in Slots |-> ZeroSummary]
    /\ stored' = [i \in Slots |-> ""]
    /\ reqs' = [i \in Slots |-> <<>>]
    /\ mainpc' = "spawn"
    /\ UNCHANGED <<config, flagVars, startDate, now, spawned, wg, exited, exitCode,
                   outVars, standaloneVars>>

\* root.go:140-146: wg.Add(1); go func(i, handle)
Go ==
    /\ ~exited /\ mainpc = "spawn" /\ spawned < Len(config.Handles)
    /\ wg' = wg + 1
    /\ spawned' = spawned + 1
    /\ pc' = [pc EXCEPT ![spawned + 1] = "start"]
    /\ UNCHANGED <<config, flagVars, startDate, now, mainpc, summaries, slotWrites,
                   si, ki, query, summary, stored, reqs, exited, exitCode,
                   outVars, standaloneVars>>

\* root.go:148-149: wg.Wait() returns; return summaries
Wait ==
    /\ ~exited /\ mainpc = "spawn" /\ spawned = Len(config.Handles)
    /\ wg = 0
    /\ mainpc' = "returned"
    /\ UNCHANGED <<config, flagVars, startDate, now, spawned, wg, summaries,
                   slotWrites, unitVars, exited, exitCode, outVars, standaloneVars>>

\* root.go:58-59: printSummaryTable, then the end of Run unless --show-prs
PrintSummaryTable ==
    /\ ~exited /\ mainpc = "returned"
    /\ table' = <<printSummaryTable(summaries, config.Statuses)>>
    /\ IF showPRs
       THEN mainpc' = "detail" /\ UNCHANGED <<exited, exitCode>>
       ELSE mainpc' = "end" /\ exited' = TRUE /\ exitCode' = 0
    /\ UNCHANGED <<config, flagVars, startDate, now, spawned, wg, summaries,
                   slotWrites, unitVars, detail, standaloneVars>>

\* root.go:59-61: printDetailedPRs, then the end of Run
PrintDetailedPRs ==
    /\ ~exited /\ mainpc = "detail"
    /\ detail' = <<printDetailedPRs(summaries)>>
    /\ mainpc' = "end" /\ exited' = TRUE /\ exitCode' = 0
    /\ UNCHANGED <<config, flagVars, startDate, now, spawned, wg, summaries,
                   slotWrites, unitVars, table, standaloneVars>>

-----------------------------------------------------------------------------
(* fetchPRs in goroutine i. *)

\* root.go:152-157
Begin(i) ==
    /\ ~exited /\ pc[i] = "start"
    /\ summary' = [summary EXCEPT ![i] =
                     [Handle |-> config.Handles[i], Counts |-> EmptyMap, PRs |-> <<>>]]
    /\ pc' = [pc EXCEPT ![i] = "loop"]
    /\ UNCHANGED <<config, flagVars, startDate, now, mainpc, spawned, wg, summaries,
                   slotWrites, si, ki, query, stored, reqs, exited, exitCode,
                   outVars, standaloneVars>>

\* root.go:159-173: the next status; the start date is recomputed from --duration
NextStatus(i) ==
    /\ ~exited /\ pc[i] = "loop" /\ si[i] <= Len(config.Statuses)
    /\ IF duration = <<>>
       THEN /\ pc' = [pc EXCEPT ![i] = "build"]
            /\ UNCHANGED <<startDate, now, stored, exited, exitCode>>
       ELSE \E parsed \in {parseDuration(duration)} :
                IF parsed.err # ""
                THEN /\ pc' = [pc EXCEPT ![i] = "fatal"]
                     /\ UNCHANGED <<startDate, now, stored, exited, exitCode>>
                ELSE /\ \E t \in ClockReadings :
                          /\ now' = t
                          /\ startDate' = NewStartDate(startDate, parsed.d, t)
                     /\ stored' = [stored EXCEPT ![i] = startDate']
                     /\ pc' = [pc EXCEPT ![i] = "build"]
                     /\ UNCHANGED <<exited, exitCode>>
    /\ UNCHANGED <<config, flagVars, mainpc, spawned, wg, summaries, slotWrites,
                   si, ki, query, summary, reqs, outVars, standaloneVars>>

\* root.go:160, 175-189: the query of the current status
BuildQuery(i) ==
    /\ ~exited /\ pc[i] = "build"
    /\ \E startTest \in StartDateReads(i), startVal \in StartDateReads(i) :
          query' = [query EXCEPT ![i] =
                      BaseQuery(config.Handles[i], config.Statuses[si[i]])
                      \o DateClauses(config.Statuses[si[i]], startTest, startVal, endDate)]
    /\ ki' = [ki EXCEPT ![i] = 1]
    /\ pc' = [pc EXCEPT ![i] = "fetch"]
    /\ UNCHANGED <<config, flagVars, startDate, now, mainpc, spawned, wg, summaries,
                   slotWrites, si, summary, stored, reqs, exited, exitCode,
                   outVars, standaloneVars>>

\* root.go:191-201, 237-245: the next request of the current status is sent
Send(i) ==
    /\ ~exited /\ pc[i] = "fetch"
    /\ LET q == query[i] \o ScopeClause(config.Orgs, config.Repos, ki[i])
       IN  reqs' = [reqs EXCEPT ![i] =
                      Append(@, [sidx |-> si[i], kidx |-> ki[i], url |-> SearchURL(q),
                                 auth |-> "token " \o token, resp |-> <<>>,
                                 body |-> <<>>])]
    /\ pc' = [pc EXCEPT ![i] = "wait"]
    /\ UNCHANGED <<config, flagVars, startDate, now, mainpc, spawned, wg, summaries,
                   slotWrites, si, ki, query, summary, stored, exited, exitCode,
                   outVars, standaloneVars>>

\* root.go:245-257: client.Do returns; makeRequest calls log.Fatalf on an
\* error or a status other than 200, or goes on to read the body
Receive(i) ==
    /\ ~exited /\ pc[i] = "wait"
    /\ \E resp \in Responses :
          /\ reqs' = [reqs EXCEPT ![i][Len(reqs[i])].resp = <<resp>>]
          /\ pc' = [pc EXCEPT ![i] =
                      IF makeRequest(Last(reqs[i]).url, resp, <<>>).fatal
                      THEN "fatal" ELSE "decode"]
    /\ UNCHANGED <<config, flagVars, startDate, now, mainpc, spawned, wg, summaries,
                   slotWrites, si, ki, query, summary, stored, exited, exitCode,
                   outVars, standaloneVars>>

\* root.go:258-262, 202-203: Decode has read the body; makeRequest calls
\* log.Fatalf or returns the items, which are added to the summary
Decode(i) ==
    /\ ~exited /\ pc[i] = "decode"
    /\ \E body \in Bodies :
          LET status == config.Statuses[si[i]]
              res == makeRequest(Last(reqs[i]).url, Last(reqs[i]).resp[1], <<body>>)
          IN  /\ reqs' = [reqs EXCEPT ![i][Len(reqs[i])].body = <<body>>]
              /\ IF res.fatal
                 THEN pc' = [pc EXCEPT ![i] = "fatal"] /\ UNCHANGED <<summary, ki, si>>
                 ELSE /\ summary' = [summary EXCEPT ![i] = Accumulate(@, status, res.items)]
                      /\ IF ki[i] < ScopeCount(config.Orgs, config.Repos)
                         THEN /\ ki' = [ki EXCEPT ![i] = @ + 1]
                              /\ pc' = [pc EXCEPT ![i] = "fetch"]
                              /\ UNCHANGED si
                         ELSE /\ si' = [si EXCEPT ![i] = @ + 1]
                              /\ pc' = [pc EXCEPT ![i] = "loop"]
                              /\ UNCHANGED ki
    /\ UNCHANGED <<config, flagVars, startDate, now, mainpc, spawned, wg, summaries,
                   slotWrites, query, stored, exited, exitCode, outVars, standaloneVars>>

\* log.Fatalf in goroutine i (root.go:166, 247, 252, 259) reaches os.Exit(1)
Exit(i) ==
    /\ ~exited /\ pc[i] = "fatal"
    /\ Fatal
    /\ UNCHANGED <<config, flagVars, startDate, now, mainpc, spawned, wg, summaries,
                   slotWrites, unitVars, outVars, standaloneVars>>

\* root.go:233, 143-144: return summary; summaries[i] = ...; wg.Done()
Return(i) ==
    /\ ~exited /\ pc[i] = "loop" /\ si[i] > Len(config.Statuses)
    /\ summaries' = WriteBack(summaries, slotWrites, i, summary[i])
    /\ slotWrites' = [slotWrites EXCEPT ![i] = @ + 1]
    /\ wg' = wg - 1
    /\ pc' = [pc EXCEPT ![i] = "done"]
    /\ UNCHANGED <<config, flagVars, startDate, now, mainpc, spawned, si, ki, query,
                   summary, stored, reqs, exited, exitCode, outVars, standaloneVars>>

-----------------------------------------------------------------------------
(* The program. *)

\* The stand-alone calls below are not part of a run of the program.
NoStandalone == durArg = <<>> /\ durRet = <<>> /\ tblArg = <<>> /\ tblRet = <<>>

\* The state when rootCmd.Run starts, for given flags and configuration file.
Started ==
    /\ config = [Handles |-> <<>>, Orgs |-> <<>>, Repos |-> <<>>, Statuses |-> <<>>]
    /\ startDate = argStartDate
    /\ token = "secret"
    /\ enableLog = FALSE
    /\ now = StartClock
    /\ mainpc = "load"
    /\ spawned = 0
    /\ wg = 0
    /\ summaries = <<>>
    /\ slotWrites = <<>>
    /\ pc = <<>> /\ si = <<>> /\ ki = <<>> /\ query = <<>>
    /\ summary = <<>> /\ stored = <<>> /\ reqs = <<>>
    /\ exited = FALSE
    /\ exitCode = 0
    /\ table = <<>>
    /\ detail = <<>>

\* The flags and the configuration file.  A --duration comes with a
\* --start-date, the case in which the two compete.
InitAll ==
    /\ configFile \in ConfigFiles
    /\ duration \in DurationFlags
    /\ argStartDate \in {"", ExplicitStart}
    /\ duration # <<>> => argStartDate = ExplicitStart
    /\ endDate \in {"", ExplicitEnd}
    /\ showPRs \in BOOLEAN
    /\ Started
    /\ NoStandalone

\* The concurrent runs: any number of handles and statuses, unscoped, without
\* --end-date, and with --show-prs only when no --duration is given.
Init ==
    /\ InitAll
    /\ configFile.Orgs = <<>>
    /\ configFile.Repos = <<>>
    /\ endDate = ""
    /\ duration # <<>> => ~showPRs

\* The fan-out runs: every flag and every configuration for a single handle;
\* several handles only without --duration and with --show-prs.
InitFanout ==
    /\ InitAll
    /\ Len(configFile.Handles) <= 1 \/ (duration = <<>> /\ showPRs)

Next ==
    \/ LoadConfig
    \/ LoadConfigFails
    \/ MakeSummaries
    \/ Go
    \/ Wait
    \/ PrintSummaryTable
    \/ PrintDetailedPRs
    \/ \E i \in Units : Begin(i)
    \/ \E i \in Units : NextStatus(i)
    \/ \E i \in Units : BuildQuery(i)
    \/ \E i \in Units : Send(i)
    \/ \E i \in Units : Receive(i)
    \/ \E i \in Units : Decode(i)
    \/ \E i \in Units : Exit(i)
    \/ \E i \in Units : Return(i)

Spec == Init /\ [][Next]_vars

SpecFanout == InitFanout /\ [][Next]_vars

\* A goroutine that has entered log.Fatalf goes on to os.Exit: nothing it
\* waits for can keep it.
InitFatal == Init /\ duration = <<>>

SpecFatal == InitFatal /\ [][Next]_vars /\ WF_vars(\E i \in Units : Exit(i))

-----------------------------------------------------------------------------
(* parseDuration on its own, over duration tokens. *)

DigitPool == {"0", "1", "3", "5", "9"}

UnitSuffixes ==
    {<<"s">>, <<"m">>, <<"h">>, <<"d">>, <<"w">>, <<"m", "o">>, <<"o">>, <<"x">>, <<>>}

\* Twenty digits: more than an int64 holds.
TooManyDigits == [i \in 1..20 |-> "9"]

DurationTokens ==
    {v \o u : v \in SeqsUpTo(DigitPool, MaxDigits)
                      \cup {<<"-", "5">>, <<"+", "5">>, <<"a">>, <<"1", " ">>,
                            TooManyDigits, TooManyDigits \o <<"x">>},
              u \in UnitSuffixes}

mainVars == <<configFile, config, duration, argStartDate, startDate, endDate, token,
              enableLog, showPRs, now, mainpc, spawned, wg, summaries, slotWrites,
              pc, si, ki, query, summary, stored, reqs, exited, exitCode, table, detail>>

\* No program runs: only the stand-alone call is made.
NoRun ==
    /\ configFile = [Handles |-> <<>>, Orgs |-> <<>>, Repos |-> <<>>, Statuses |-> <<>>]
    /\ duration = <<>> /\ argStartDate = "" /\ endDate = "" /\ showPRs = FALSE
    /\ Started

InitDuration ==
    /\ NoRun
    /\ durArg \in DurationTokens
    /\ durRet = <<>> /\ tblArg = <<>> /\ tblRet = <<>>

\* root.go:99-134
ParseDuration ==
    /\ durRet = <<>>
    /\ durRet' = <<parseDuration(durArg)>>
    /\ UNCHANGED <<mainVars, durArg, tblArg, tblRet>>

NextDuration == ParseDuration

SpecDuration == InitDuration /\ [][NextDuration]_vars

-----------------------------------------------------------------------------
(* printSummaryTable on its own, over any summaries and status list. *)

\* The statuses of a table: those of the runs and one that Title rewrites.
TableStatuses == StatusPool \cup {"in_review"}

\* The handles of a table: those of the runs, one that differs from another
\* in a trailing space only, and one that is nothing but a space.
TableHandles == {HandleName(k) : k \in 1..MaxHandles} \cup {HandleName(1) \o " ", " "}

CountMaps == UNION {[D -> 0..MaxCount] : D \in SUBSET TableStatuses}

\* Any summaries, repeated handles included, and any status list.
InitTable ==
    /\ NoRun
    /\ \E n \in 0..MaxHandles :
          \E h \in [1..n -> TableHandles], m \in [1..n -> CountMaps] :
             \E sts \in SeqsUpTo(TableStatuses, MaxStatuses) :
                tblArg = [sums |-> [i \in 1..n |->
                                      [Handle |-> h[i], Counts |-> m[i], PRs |-> <<>>]],
                          statuses |-> sts]
    /\ tblRet = <<>> /\ durArg = <<>> /\ durRet = <<>>

\* root.go:265-299
RenderTable ==
    /\ tblArg # <<>> /\ tblRet = <<>>
    /\ tblRet' = <<printSummaryTable(tblArg.sums, tblArg.statuses)>>
    /\ UNCHANGED <<mainVars, durArg, durRet, tblArg>>

NextTable == RenderTable

SpecTable == InitTable /\ [][NextTable]_vars

-----------------------------------------------------------------------------
(* What the properties below read off a run. *)

\* The query a logged request carried.
QueryOf(r) == r.url[2].escaped

\* The clauses of a query whose key is one of keys, in order.
ClausesWith(q, keys) == SelectSeq(q, LAMBDA c : c[1] \in keys)

StartKeys == {"merged:>=", "created:>="}

EndKeys == {"merged:<=", "created:<="}

ScopeKeys == {"org:", "repo:"}

\* A request for which client.Do has returned.
Answered(r) == r.resp # <<>>

\* A request whose response body Decode has read.
Decoded(r) == r.body # <<>>

\* A request that ended in a transport error, a status other than 200 or a
\* body that does not decode.
Failed(r) ==
    /\ Answered(r)
    /\ \/ r.resp[1].err
       \/ r.resp[1].code # 200
       \/ Decoded(r) /\ ~r.body[1].decodes

\* The number of items a request brought back.
ItemCount(r) == IF Decoded(r) /\ ~Failed(r) THEN r.body[1].n ELSE 0

\* The scope clauses one (handle, status) pair is to send, in configured order.
ExpectedScopes ==
    IF Len(config.Orgs) > 0 THEN [k \in 1..Len(config.Orgs) |-> <<<<"org:", config.Orgs[k]>>>>]
    ELSE IF Len(config.Repos) > 0
         THEN [k \in 1..Len(config.Repos) |-> <<<<"repo:", config.Repos[k]>>>>]
         ELSE <<<<>>>>

\* The items the server returned to goroutine i, request after request.
Returned(i) ==
    Flatten([k \in 1..Len(reqs[i]) |-> Items(QueryOf(reqs[i][k]), ItemCount(reqs[i][k]))])

ValidDuration == duration # <<>> /\ parseDuration(duration).err = ""

MalformedDuration == duration # <<>> /\ parseDuration(duration).err # ""

\* What parseDuration returns for each --duration that can be given.
ParsedFlags == [f \in DurationFlags \ {<<>>} |-> parseDuration(f)]

\* The start date the n-th clock reading gives for each valid --duration.
ComputedStarts ==
    [f \in {g \in DOMAIN ParsedFlags : ParsedFlags[g].err = ""} |->
        [n \in 0..MaxTicks |->
            Format(StartClock + n * TickSeconds - FloorSeconds(ParsedFlags[f].d))]]

\* The characters of a string, one by one.
Chars(str) == [i \in 1..Len(str) |-> CharAt(str, i)]

\* The number a sequence of digit characters denotes.
CellValue(cell) == LimbsValue(Atoi(cell).val, 1)

\* The number a table cell shows.
CellNumber(cell) == CellValue(Chars(cell))

-----------------------------------------------------------------------------
(* Properties. *)

\* C1: when fetchAllPRs has returned, summaries has one entry per configured
\* handle, every goroutine has finished and written its own slot exactly once,
\* and entry i is the summary goroutine i built for config.Handles[i], whatever
\* the order in which the goroutines completed.
C1_OrderedJoin ==
    mainpc \in {"returned", "detail", "end"} =>
        /\ Len(summaries) = Len(config.Handles)
        /\ \A i \in 1..Len(config.Handles) :
              /\ pc[i] = "done"
              /\ slotWrites[i] = 1
              /\ summaries[i] = summary[i]
              /\ summaries[i].Handle = config.Handles[i]
              /\ Len(reqs[i]) = Len(config.Statuses) * Len(ExpectedScopes)
              /\ summaries[i].PRs = Returned(i)

C1_Witness ==
    /\ mainpc = "returned"
    /\ Len(config.Handles) = 2
    /\ summaries[1].PRs # <<>>
    /\ summaries[2].PRs # <<>>

\* What holds of every request that has failed.
FatalRequestPending ==
    \A i \in Units : \A k \in 1..Len(reqs[i]) :
        Failed(reqs[i][k]) =>
            /\ k = Len(reqs[i])
            /\ pc[i] = "fatal"
            /\ wg > 0 /\ mainpc = "spawn"
            /\ table = <<>> /\ detail = <<>>
            /\ exited => exitCode # 0

SomeRequestFailed == \E i \in Units : \E k \in 1..Len(reqs[i]) : Failed(reqs[i][k])

\* C2: once a request has ended in a transport error, a non-200 status or an
\* undecodable body, its goroutine is inside log.Fatalf for good: the request
\* is the last one it made (no retry), its wg.Done never runs, so fetchAllPRs
\* has not returned and neither the table nor the detailed list was printed,
\* whatever the other goroutines have done or still do; the process cannot
\* end with exit code 0, and it does end.
C2_FatalRequest ==
    /\ []FatalRequestPending
    /\ SomeRequestFailed ~> (exited /\ exitCode # 0)

C2_Witness ==
    \E i \in Units : \E h \in Units \ {i} :
        /\ reqs[i] # <<>> /\ Failed(Last(reqs[i]))
        /\ Len(reqs[h]) = 2 /\ ~Answered(Last(reqs[h]))
        /\ exited
        /\ showPRs

\* C3: for every goroutine and every status it has finished, the requests made
\* for that status are one per org, each with that org's org: clause and no
\* repo: clause, when orgs are configured; else one per repo with that repo's
\* repo: clause; else a single request with neither clause.
C3_ScopeRequests ==
    \A i \in Units : \A s \in 1..Len(config.Statuses) :
        s < si[i] =>
            LET rs == SelectSeq(reqs[i], LAMBDA r : r.sidx = s)
                want == ExpectedScopes
            IN  /\ Len(rs) = Len(want)
                /\ \A k \in 1..Len(rs) : ClausesWith(QueryOf(rs[k]), ScopeKeys) = want[k]

C3_Witness ==
    \E i \in Units :
        /\ si[i] > 1
        /\ Len(config.Orgs) = 2
        /\ Len(config.Repos) > 0

\* C4: every query sent filters dates on merged when its status is "merged"
\* and on created otherwise, never on both; it has at most one start filter
\* and one end filter, a start filter only with a non-empty start date and an
\* end filter only with a non-empty end date.
C4_DateField ==
    \A i \in Units : \A k \in 1..Len(reqs[i]) :
        LET q == QueryOf(reqs[i][k])
            status == config.Statuses[reqs[i][k].sidx]
            field == IF status = "merged" THEN "merged" ELSE "created"
            starts == ClausesWith(q, StartKeys)
            ends == ClausesWith(q, EndKeys)
        IN  /\ q[3] = <<"is:", status>>
            /\ \A c \in Range(starts) : c[1] = field \o ":>="
            /\ \A c \in Range(ends) : c[1] = field \o ":<="
            /\ Len(starts) <= 1 /\ Len(ends) <= 1
            /\ starts # <<>> => starts[1][2] # "" /\ startDate # ""
            /\ ends # <<>> => ends[1][2] = endDate /\ endDate # ""

C4_Witness ==
    \E i \in Units : \E k1 \in 1..Len(reqs[i]) : \E k2 \in 1..Len(reqs[i]) :
        /\ config.Statuses[reqs[i][k1].sidx] = "merged"
        /\ Len(ClausesWith(QueryOf(reqs[i][k1]), {"merged:>=", "merged:<="})) = 2
        /\ config.Statuses[reqs[i][k2].sidx] = "open"
        /\ Len(ClausesWith(QueryOf(reqs[i][k2]), {"created:>=", "created:<="})) = 2

\* C5: with a valid --duration, every query sent by every goroutine carries
\* exactly one start date, which is the date of some clock reading minus the
\* duration, and never the --start-date given on the command line.
C5_DurationOverrides ==
    (duration # <<>> /\ ParsedFlags[duration].err = "") =>
        /\ \A i \in Units : \A k \in 1..Len(reqs[i]) :
              LET starts == ClausesWith(QueryOf(reqs[i][k]), StartKeys)
              IN  /\ Len(starts) = 1
                  /\ \E n \in 0..MaxTicks :
                        /\ StartClock + n * TickSeconds <= now
                        /\ starts[1][2] = ComputedStarts[duration][n]
                  /\ argStartDate # "" => starts[1][2] # argStartDate

C5_Witness ==
    /\ ValidDuration
    /\ argStartDate = ExplicitStart
    /\ \E i \in Units : \E j \in Units \ {i} :
          /\ reqs[i] # <<>> /\ reqs[j] # <<>>
          /\ ClausesWith(QueryOf(reqs[i][1]), StartKeys)
                # ClausesWith(QueryOf(reqs[j][1]), StartKeys)

\* C6: in the rendered table the columns are the configured statuses in order
\* (in upper case), every row is the row of its handle,
\* every row total is the sum of the counts shown in the row, every footer
\* column is the sum of that column over the rows, and the grand total is the
\* sum of the row totals.
C6_TableTotals ==
    tblRet # <<>> =>
        LET t == tblRet[1]
            sts == tblArg.statuses
            n == Len(sts)
            rows == 1..Len(tblArg.sums)
        IN  /\ t.header = <<Title("Handle")>> \o [p \in 1..n |-> Title(sts[p])]
                               \o <<Title("Total")>>
            /\ Len(t.rows) = Len(tblArg.sums)
            /\ \A r \in rows :
                  /\ Len(t.rows[r]) = n + 2
                  /\ t.rows[r][1] \in {tblArg.sums[r].Handle, ""}
                  /\ \A p \in 1..n :
                        CellNumber(t.rows[r][p + 1]) = MapGet(tblArg.sums[r].Counts, sts[p])
                  /\ CellNumber(t.rows[r][n + 2])
                        = SeqSum([p \in 1..n |-> CellNumber(t.rows[r][p + 1])])
            /\ \A p \in 1..n :
                  CellNumber(t.footer[p + 1])
                     = SeqSum([r \in rows |-> CellNumber(t.rows[r][p + 1])])
            /\ CellNumber(t.footer[n + 2])
                  = SeqSum([r \in rows |-> CellNumber(t.rows[r][n + 2])])

\* C7: for every positive integer n and every unit among s, m, h, d, w, mo,
\* parseDuration of n followed by the unit succeeds and returns exactly
\* n x {1, 60, 3600, 86400, 604800, 2592000} seconds.
C7_ExactSpan ==
    durRet # <<>> =>
        LET len == Len(durArg)
            isMo == len >= 3 /\ SubSeq(durArg, len - 1, len) = <<"m", "o">>
            unit == IF isMo THEN "mo" ELSE IF len >= 1 THEN durArg[len] ELSE ""
            n == IF isMo THEN SubSeq(durArg, 1, len - 2) ELSE SubSeq(durArg, 1, len - 1)
            positive == /\ n # <<>>
                        /\ \A i \in 1..Len(n) : IsDigit(n[i])
                        /\ \E i \in 1..Len(n) : n[i] # "0"
            seconds == CASE unit = "s" -> 1
                         [] unit = "m" -> 60
                         [] unit = "h" -> 3600
                         [] unit = "d" -> 86400
                         [] unit = "w" -> 604800
                         [] OTHER -> 2592000
            exact == MulW(Limbs(CellValue(n), 2 * Width),
                          MulW(Limbs(seconds, 2 * Width), Limbs(10^9, 2 * Width), 2 * Width),
                          2 * Width)
        IN  (positive /\ unit \in {"s", "m", "h", "d", "w", "mo"}) =>
                /\ durRet[1].err = ""
                /\ ~IsNeg64(durRet[1].d)
                /\ durRet[1].d \o [i \in 1..Width |-> 0] = exact

\* C8: with a malformed --duration the process never exits with code 0, never
\* renders a table and never issues a request.
C8_MalformedDurationFatal ==
    MalformedDuration =>
        /\ exited => exitCode # 0
        /\ table = <<>>
        /\ \A i \in Units : reqs[i] = <<>>

\* C9: while the goroutines run, no step writes the configuration, the token,
\* the start or end date, the duration or the log flag; a slot of summaries
\* changes only when its own goroutine returns, and is assigned once.
C9_NoSharedWrites ==
    [][mainpc = "spawn" =>
          /\ UNCHANGED <<config, token, startDate, endDate, duration, enableLog>>
          /\ \A i \in Units :
                /\ summaries'[i] # summaries[i] => pc[i] = "loop" /\ pc'[i] = "done"
                /\ slotWrites'[i] <= 1]_vars

\* C10: goroutine i issues its requests status by status in configured order
\* and, within a status, scope by scope in configured order; when it is done,
\* Counts[status] is the number of items returned for that status and PRs is
\* the concatenation of the returned items in request order; the detailed list
\* prints them handle by handle in that order.
C10_StatusMajorOrder ==
    /\ \A i \in Units :
          LET want == ExpectedScopes
              K == Len(want)
          IN  /\ \A k \in 1..Len(reqs[i]) :
                    LET r == reqs[i][k]
                    IN  /\ r.sidx = ((k - 1) \div K) + 1
                        /\ r.kidx = ((k - 1) % K) + 1
                        /\ QueryOf(r)[1] = <<"author:", config.Handles[i]>>
                        /\ QueryOf(r)[3] = <<"is:", config.Statuses[r.sidx]>>
                        /\ ClausesWith(QueryOf(r), ScopeKeys) = want[r.kidx]
              /\ pc[i] = "done" =>
                    /\ Len(reqs[i]) = Len(config.Statuses) * K
                    /\ summaries[i].PRs = Returned(i)
                    /\ \A st \in Range(config.Statuses) :
                          MapGet(summaries[i].Counts, st)
                             = SeqSum([k \in 1..Len(reqs[i]) |->
                                         IF config.Statuses[reqs[i][k].sidx] = st
                                         THEN ItemCount(reqs[i][k]) ELSE 0])
    /\ detail # <<>> =>
          detail[1] = <<"Detailed PRs:">>
                      \o Flatten([i \in 1..Len(config.Handles) |->
                                    [j \in 1..Len(Returned(i)) |->
                                       <<Returned(i)[j].Title, Returned(i)[j].URL>>]])

C10_Witness ==
    /\ detail # <<>>
    /\ Len(config.Statuses) = 2
    /\ Len(config.Orgs) = 2
    /\ \E i \in Units :
          /\ pc[i] = "done"
          /\ Len(reqs[i]) = 4
          /\ \A k \in 1..4 : ItemCount(reqs[i][k]) > 0

====
